---- MODULE Spec2Model ----
(***************************************************************************)
(* Miranda backend (src/backend/main.py): the SimpleStorage project store, *)
(* its JSON persistence, the request handlers that mutate it, and the AI   *)
(* gateway.                                                                *)
(*                                                                         *)
(* Handlers are `async def` coroutines run by one event loop: a handler    *)
(* runs without interruption between two `await` expressions.  The only    *)
(* awaits inside the store handlers are `await file.read()` in the two     *)
(* upload handlers, so those are two steps (Begin / Finish) and every      *)
(* other handler is one step.                                              *)
(*                                                                         *)
(* The AI gateway is the part of the same file that calls LightRAG and     *)
(* OpenAI, and FixedLightRAGManager of                                     *)
(* src/miranda/backend/core/lightrag_fix.py.  What the model service and   *)
(* the library answer is an input of the call.                             *)
(*                                                                         *)
(* Strings that the code measures or trims are sequences of characters;    *)
(* strings that the code only compares are TLA+ strings.  The identifier   *)
(* f"project_{n}" is the pair <<"project_", n>>.                           *)
(***************************************************************************)
EXTENDS Integers, Sequences, FiniteSets, TLC

VARIABLES
    projects,      \* storage.projects   : list of project dicts
    brainstorms,   \* storage.brainstorms: dict brainstorm id -> dict
    buckets,       \* storage.buckets    : dict project id -> list of names
    tables,        \* storage.tables     : dict project id -> list of names
    uploads,       \* storage.uploads    : dict file id -> dict
    file,          \* ./projects/projects.json
    apiKey,        \* bool(os.getenv("OPENAI_API_KEY"))
    documents,     \* fixed_lightrag.documents: dict doc id -> dict
    tempDirs,      \* the directories made by tempfile.mkdtemp() that exist
    argv,          \* sys.argv
    pending,       \* requests suspended at an `await`
    resp,          \* the response of the request that completed last
    deleted,       \* history: some delete has succeeded since Init
    removed,       \* history: what the delete that completed last removed
    failedWrites   \* history: number of _save_projects calls that failed

store == <<projects, brainstorms, buckets, tables, uploads>>
gateway == <<apiKey, documents, tempDirs, argv>>
vars == <<projects, brainstorms, buckets, tables, uploads, file, apiKey,
          documents, tempDirs, argv, pending, resp, deleted, removed,
          failedWrites>>

----------------------------------------------------------------------------
(* Bounds of the model *)

MaxProjects == 2       \* create is offered while Len(projects) < MaxProjects
MaxBrainstorms == 2    \* brainstorm is offered while fewer are stored
MaxUploads == 2        \* uploads are offered while fewer are recorded
MaxTasks == 2          \* requests that may be suspended at once
MaxFailedWrites == 1   \* failing _save_projects calls in one behaviour
MaxDocuments == 1      \* process_and_query is offered while fewer are stored

(* Program constants *)

MaxNameLen == 100
MaxFileSize == 10 * 1024 * 1024
(* Variant: the template list with a fourth entry. *)
valid_templates_extended == <<"screenplay", "academic", "business", "novel">>

valid_templates == <<"screenplay", "academic", "business">>
created_at == "2025-01-01T00:00:00Z"

----------------------------------------------------------------------------
(* Values *)

None == [none |-> TRUE]          \* Python None where a dict is expected
null == "null"                   \* Python None where a string is expected

Rep(c, n) == [i \in 1..n |-> c]  \* the string c * n

research    == <<"r","e","s","e","a","r","c","h">>
references  == <<"r","e","f","e","r","e","n","c","e","s">>
inspiration == <<"i","n","s","p","i","r","a","t","i","o","n">>
characters  == <<"c","h","a","r","a","c","t","e","r","s">>
scenes      == <<"s","c","e","n","e","s">>
themes      == <<"t","h","e","m","e","s">>
notes       == <<"n","o","t","e","s">>

ProjectId(n)    == <<"project_", n>>
BrainstormId(n) == <<"brainstorm_", n>>
FileId(n)       == <<"file_", n>>

Range(s) == {s[i] : i \in DOMAIN s}

(* dict[k] = v *)
Put(d, k, v) == [x \in (DOMAIN d) \cup {k} |-> IF x = k THEN v ELSE d[x]]
(* del dict[k] *)
Del(d, k) == [x \in (DOMAIN d) \ {k} |-> d[x]]
(* dict.get(k, default) *)
Get(d, k, default) == IF k \in DOMAIN d THEN d[k] ELSE default

EmptyDict == [x \in {} |-> None]

----------------------------------------------------------------------------
(* Inputs of the requests *)

(* Request bodies of POST /projects: names of length 1, MaxNameLen and      *)
(* MaxNameLen + 1, the three valid templates and one that is not valid.     *)
ProjectInputs ==
    { [name |-> Rep("a", 1), template |-> "screenplay", description |-> null],
      [name |-> Rep("b", MaxNameLen), template |-> "academic",
       description |-> "d"],
      [name |-> Rep("c", MaxNameLen + 1), template |-> "business",
       description |-> null],
      [name |-> Rep("a", 1), template |-> "novel", description |-> "d"],
      [name |-> Rep("c", MaxNameLen + 1), template |-> "novel",
       description |-> null] }
UploadProjectInputs ==
    {p \in ProjectInputs : p.name = Rep("a", 1) /\ p.template = "screenplay"}
(* The {project_id} path parameter: the first two ids the store hands out. *)
IdInputs == {ProjectId(1), ProjectId(2)}
ContextInputs == {"General brainstorming", "act two"}
FocusInputs == {"Creative development"}
ToneInputs == {"neutral"}
BucketNameInputs == {research, <<" ">> \o notes \o <<" ">>, <<" ">>}
BucketPathInputs == {research, themes}
TablePathInputs == {characters, notes}
csvName == <<"t", ".", "c", "s", "v">>
txtName == <<"t", ".", "t", "x", "t">>
noDotName == <<"c", "s", "v">>
FilenameInputs == {csvName, txtName, noDotName}
SizeInputs == {MaxFileSize, MaxFileSize + 1}
SaveOutcomes == {"ok", "open_fails", "interrupted"}
TextInputs == {"", "Some document"}
QueryInputs == {"What is this about?", "Who?"}
PromptInputs == {"Hello"}
FormatInputs == {"screenplay", "academic"}
ExportFormatInputs == {"json", "csv"}
BrainstormIdInputs == {null, BrainstormId(1), BrainstormId(2)}
SelectedTablesInputs == {<<>>, <<"characters">>}
SelectedBucketsInputs == {<<>>, <<"research">>}
(* Whether `from lightrag import ...` and LightRAG(...) succeed. *)
LibraryInputs == {"available", "import_fails", "init_fails"}
(* What the OpenAI service does with one request. *)
UpstreamOutcomes == {"ok", "timeout", "quota", "malformed"}
(* Whether rag.ainsert / rag.aquery of the real library return or raise. *)
RagOutcomes == {"returns", "raises"}

----------------------------------------------------------------------------
(* SimpleStorage *)

(* Variant: the document without the brainstorms. *)
Dump_withoutBrainstorms(ps, bs, bk, tb) ==
    [kind |-> "json",
     data |-> [projects |-> ps, buckets |-> bk, tables |-> tb]]

(* json.dump({"projects": ..., "brainstorms": ..., "buckets": ...,          *)
(* "tables": ...}): the document holds these four collections and nothing  *)
(* else of the store (storage.uploads is not written).                     *)
Dump(ps, bs, bk, tb) ==
    [kind |-> "json",
     data |-> [projects |-> ps, brainstorms |-> bs, buckets |-> bk,
               tables |-> tb]]

(* _save_projects: the file after the call.  open(..., 'w') may fail and   *)
(* leave the file as it was; a write that stops part-way leaves a          *)
(* truncated document, which is not valid JSON; either exception is        *)
(* swallowed.                                                              *)
_save_projects(outcome, ps, bs, bk, tb) ==
    CASE outcome = "ok" -> Dump(ps, bs, bk, tb)
      [] outcome = "open_fails" -> file
      [] outcome = "interrupted" -> [kind |-> "corrupt"]

(* The outcomes a save may have, and the count of the failed ones. *)
SaveAllowed(outcome) ==
    outcome \in SaveOutcomes
      /\ (outcome # "ok" => failedWrites < MaxFailedWrites)

SaveCount(outcome) ==
    IF outcome = "ok" THEN failedWrites ELSE failedWrites + 1

(* What ./projects/projects.json can be when the store is constructed      *)
(* and no earlier run of this program has written it: missing, not         *)
(* readable by the process, not valid JSON, or JSON that is not an object. *)
ReadFailureKinds == {"unreadable", "corrupt", "not_object"}
InitialFiles == {[kind |-> k] : k \in {"absent"} \cup ReadFailureKinds}

EmptyStore ==
    [projects |-> <<>>, brainstorms |-> EmptyDict, buckets |-> EmptyDict,
     tables |-> EmptyDict]

(* Variant: a read failure leaves the collections that were in memory. *)
_load_projects_keepsMemory(f) ==
    IF f.kind = "json"
    THEN [projects    |-> Get(f.data, "projects", <<>>),
          brainstorms |-> Get(f.data, "brainstorms", EmptyDict),
          buckets     |-> Get(f.data, "buckets", EmptyDict),
          tables      |-> Get(f.data, "tables", EmptyDict)]
    ELSE [projects |-> projects, brainstorms |-> brainstorms,
          buckets |-> buckets, tables |-> tables]

(* _load_projects: the four collections after construction.  They stay     *)
(* the empty collections of __init__ when the file is missing (exists() is *)
(* False), when open raises, when json.load raises, and when data.get      *)
(* raises because the document is not an object: the bare except passes.   *)
_load_projects(f) ==
    CASE f.kind = "json" ->
           [projects    |-> Get(f.data, "projects", <<>>),
            brainstorms |-> Get(f.data, "brainstorms", EmptyDict),
            buckets     |-> Get(f.data, "buckets", EmptyDict),
            tables      |-> Get(f.data, "tables", EmptyDict)]
      [] f.kind = "absent" -> EmptyStore
      [] f.kind = "unreadable" -> EmptyStore
      [] f.kind = "corrupt" -> EmptyStore
      [] f.kind = "not_object" -> EmptyStore

(* Variant: the id is derived from the number of brainstorms. *)
NextProjectId_brainstormCount(ps) ==
    ProjectId(Cardinality(DOMAIN brainstorms) + 1)

(* project_id = f"project_{len(self.projects) + 1}" *)
NextProjectId(ps) == ProjectId(Len(ps) + 1)

(* The project dict SimpleStorage.create_project builds. *)
NewProject(ps, project_data) ==
    [id          |-> NextProjectId(ps),
     name        |-> project_data.name,
     template    |-> project_data.template,
     description |-> project_data.description,
     created_at  |-> created_at]

default_buckets == <<research, references, inspiration>>
default_tables  == <<characters, scenes, themes>>

(* SimpleStorage.get_project: next((p for p in projects if p["id"] == id), *)
(* None), the first match in list order.                                   *)
SimpleStorage_get_project(ps, project_id) ==
    IF \E i \in DOMAIN ps : ps[i].id = project_id
    THEN ps[CHOOSE i \in DOMAIN ps :
              /\ ps[i].id = project_id
              /\ \A j \in DOMAIN ps : ps[j].id = project_id => i <= j]
    ELSE None

(* Variant: the list is returned newest first. *)
SimpleStorage_get_projects_reversed ==
    [i \in 1..Len(projects) |-> projects[Len(projects) + 1 - i]]

(* SimpleStorage.get_projects *)
SimpleStorage_get_projects == projects

----------------------------------------------------------------------------
(* Responses.  status is the HTTP status; body is the JSON payload, or the  *)
(* detail of the HTTPException.                                             *)

Response(op, arg, status, body) ==
    [op |-> op, arg |-> arg, status |-> status, body |-> body]

HTTPException(op, arg, status, detail) ==
    Response(op, arg, status, [success |-> FALSE, detail |-> detail])

Idle == [pc |-> "idle"]
(* sys.argv of `python main.py` *)
process_argv == <<"main.py">>
NoRemoval == [projects |-> 0, brainstorms |-> 0]
Tasks == 1..MaxTasks

Init ==
    /\ projects = <<>>
    /\ brainstorms = EmptyDict
    /\ buckets = EmptyDict
    /\ tables = EmptyDict
    /\ uploads = EmptyDict
    /\ file \in InitialFiles
    /\ apiKey \in BOOLEAN
    /\ documents = EmptyDict
    /\ tempDirs = {}
    /\ argv = process_argv
    /\ pending = [t \in Tasks |-> Idle]
    /\ resp = Response("startup", None, 200, None)
    /\ deleted = FALSE
    /\ removed = NoRemoval
    /\ failedWrites = 0

(* The process stops and starts again: storage = SimpleStorage() builds    *)
(* empty collections and loads the file; suspended requests are gone, and  *)
(* what they had put on the disk stays there.                              *)
Restart ==
    /\ LET loaded == _load_projects(file) IN
         /\ projects' = loaded.projects
         /\ brainstorms' = loaded.brainstorms
         /\ buckets' = loaded.buckets
         /\ tables' = loaded.tables
    /\ uploads' = EmptyDict
    /\ pending' = [t \in Tasks |-> Idle]
    /\ apiKey' \in BOOLEAN
    /\ documents' = EmptyDict
    /\ argv' = process_argv
    /\ resp' = Response("startup", None, 200, None)
    /\ UNCHANGED <<file, tempDirs, deleted, failedWrites>>
    /\ removed' = NoRemoval

----------------------------------------------------------------------------
(* Project endpoints *)

(* GET /projects *)
list_projects ==
    /\ resp' = Response("list", None, 200,
                        [success |-> TRUE,
                         projects |-> SimpleStorage_get_projects,
                         count |-> Len(SimpleStorage_get_projects)])
    /\ UNCHANGED <<store, file, gateway, pending, deleted, failedWrites>>
    /\ removed' = NoRemoval

(* Variant: the new project is put at the head of the list. *)
SimpleStorage_create_project_prepend(project_data, outcome) ==
    LET project == NewProject(projects, project_data) IN
    /\ SaveAllowed(outcome)
    /\ projects' = <<project>> \o projects
    /\ buckets' = Put(buckets, project.id, default_buckets)
    /\ tables' = Put(tables, project.id, default_tables)
    /\ file' = _save_projects(outcome, projects', brainstorms, buckets',
                              tables')
    /\ failedWrites' = SaveCount(outcome)
    /\ resp' = Response("create", project_data, 200,
                        [success |-> TRUE, project |-> project])

(* SimpleStorage.create_project: append, default buckets and tables, save. *)
SimpleStorage_create_project(project_data, outcome) ==
    LET project == NewProject(projects, project_data) IN
    /\ SaveAllowed(outcome)
    /\ projects' = Append(projects, project)
    /\ buckets' = Put(buckets, project.id, default_buckets)
    /\ tables' = Put(tables, project.id, default_tables)
    /\ file' = _save_projects(outcome, projects', brainstorms, buckets',
                              tables')
    /\ failedWrites' = SaveCount(outcome)
    /\ resp' = Response("create", project_data, 200,
                        [success |-> TRUE, project |-> project])

(* Variant: the length check with >= in place of >. *)
NameTooLong_inclusive(name) == Len(name) >= MaxNameLen

(* `if len(project.name) > 100` *)
NameTooLong(name) == Len(name) > MaxNameLen

(* POST /projects *)
create_project(project) ==
    /\ IF project.template \notin Range(valid_templates)
       THEN /\ resp' = HTTPException("create", project, 422,
                                     "Invalid template")
            /\ UNCHANGED <<projects, buckets, tables, file, failedWrites>>
       ELSE IF NameTooLong(project.name)
       THEN /\ resp' = HTTPException("create", project, 422,
                                     "Project name too long")
            /\ UNCHANGED <<projects, buckets, tables, file, failedWrites>>
       ELSE /\ Len(projects) < MaxProjects
            /\ \E outcome \in SaveOutcomes :
                 SimpleStorage_create_project(project, outcome)
    /\ UNCHANGED <<brainstorms, uploads, gateway, pending, deleted>>
    /\ removed' = NoRemoval

(* GET /projects/{project_id} *)
get_project(project_id) ==
    /\ LET project == SimpleStorage_get_project(projects, project_id) IN
         resp' = IF project = None
                 THEN HTTPException("get", project_id, 404,
                                    "Project not found")
                 ELSE Response("get", project_id, 200,
                               [success |-> TRUE, project |-> project])
    /\ UNCHANGED <<store, file, gateway, pending, deleted, failedWrites>>
    /\ removed' = NoRemoval

(* Variant: list.remove, which drops the first matching project only. *)
RemoveProject_firstOnly(ps, project_id) ==
    IF \E i \in DOMAIN ps : ps[i].id = project_id
    THEN LET i == CHOOSE k \in DOMAIN ps :
                    /\ ps[k].id = project_id
                    /\ \A j \in DOMAIN ps : ps[j].id = project_id => k <= j
         IN SubSeq(ps, 1, i - 1) \o SubSeq(ps, i + 1, Len(ps))
    ELSE ps

(* Variant: the brainstorms are kept when their project is deleted. *)
RemoveBrainstorms_keep(bs, project_id) == bs

(* The collections after the removal in delete_project. *)
RemoveProject(ps, project_id) ==
    SelectSeq(ps, LAMBDA p : p.id # project_id)

RemoveBrainstorms(bs, project_id) ==
    [k \in {x \in DOMAIN bs : bs[x].project_id # project_id} |-> bs[k]]

RemoveEntry(d, project_id) ==
    IF project_id \in DOMAIN d THEN Del(d, project_id) ELSE d

(* DELETE /projects/{project_id} *)
delete_project(project_id) ==
    /\ IF SimpleStorage_get_project(projects, project_id) = None
       THEN /\ resp' = HTTPException("delete", project_id, 404,
                                     "Project not found")
            /\ removed' = NoRemoval
            /\ UNCHANGED <<projects, brainstorms, buckets, tables, file,
                           deleted, failedWrites>>
       ELSE /\ projects' = RemoveProject(projects, project_id)
            /\ brainstorms' = RemoveBrainstorms(brainstorms, project_id)
            /\ buckets' = RemoveEntry(buckets, project_id)
            /\ tables' = RemoveEntry(tables, project_id)
            /\ \E outcome \in SaveOutcomes :
                 /\ SaveAllowed(outcome)
                 /\ file' = _save_projects(outcome, projects', brainstorms',
                                           buckets', tables')
                 /\ failedWrites' = SaveCount(outcome)
            /\ deleted' = TRUE
            /\ removed' =
                 [projects |-> Len(projects) - Len(projects'),
                  brainstorms |-> Cardinality(DOMAIN brainstorms)
                                    - Cardinality(DOMAIN brainstorms')]
            /\ resp' = Response("delete", project_id, 200,
                                [success |-> TRUE,
                                 message |-> "Project deleted"])
    /\ UNCHANGED <<uploads, gateway, pending>>

----------------------------------------------------------------------------
(* Bucket and table endpoints *)

IsSpace(c) == c \in {" ", "\t", "\n"}

(* str.strip() *)
RECURSIVE lstrip(_)
lstrip(s) ==
    IF s # <<>> /\ IsSpace(Head(s)) THEN lstrip(Tail(s)) ELSE s

RECURSIVE rstrip(_)
rstrip(s) ==
    IF s # <<>> /\ IsSpace(s[Len(s)])
    THEN rstrip(SubSeq(s, 1, Len(s) - 1))
    ELSE s

strip(s) == rstrip(lstrip(s))

(* Variant: only the last character is compared. *)
endswith_lastChar(s, suffix) ==
    /\ s # <<>>
    /\ suffix # <<>>
    /\ s[Len(s)] = suffix[Len(suffix)]

(* str.endswith(suffix) *)
endswith(s, suffix) ==
    /\ Len(s) >= Len(suffix)
    /\ SubSeq(s, Len(s) - Len(suffix) + 1, Len(s)) = suffix

(* `if project_id not in d: d[project_id] = []` *)
EnsureEntry(d, project_id) ==
    IF project_id \in DOMAIN d THEN d ELSE Put(d, project_id, <<>>)

(* Variant: the name is compared with the last bucket only. *)
IsDuplicate_lastOnly(names, bucket_name) ==
    names # <<>> /\ names[Len(names)] = bucket_name

(* `if bucket_name in storage.buckets[project_id]` *)
IsDuplicate(names, bucket_name) == bucket_name \in Range(names)

(* POST /projects/{project_id}/buckets *)
create_bucket(project_id, name) ==
    /\ LET bucket_name == strip(name)
           ensured == EnsureEntry(buckets, project_id)
       IN
       IF SimpleStorage_get_project(projects, project_id) = None
       THEN /\ resp' = HTTPException("create_bucket", project_id, 404,
                                     "Project not found")
            /\ UNCHANGED <<buckets, file, failedWrites>>
       ELSE IF bucket_name = <<>>
       THEN /\ resp' = HTTPException("create_bucket", project_id, 422,
                                     "Bucket name required")
            /\ UNCHANGED <<buckets, file, failedWrites>>
       ELSE IF IsDuplicate(ensured[project_id], bucket_name)
       THEN /\ resp' = HTTPException("create_bucket", project_id, 409,
                                     "Bucket already exists")
            /\ buckets' = ensured
            /\ UNCHANGED <<file, failedWrites>>
       ELSE /\ buckets' = [ensured EXCEPT ![project_id] =
                                            Append(@, bucket_name)]
            /\ \E outcome \in SaveOutcomes :
                 /\ SaveAllowed(outcome)
                 /\ file' = _save_projects(outcome, projects, brainstorms,
                                           buckets', tables)
                 /\ failedWrites' = SaveCount(outcome)
            /\ resp' = Response("create_bucket", project_id, 200,
                                [success |-> TRUE,
                                 bucket |-> [name |-> bucket_name,
                                             active |-> TRUE]])
    /\ UNCHANGED <<projects, brainstorms, tables, uploads, gateway, pending,
                   deleted>>
    /\ removed' = NoRemoval

(* Variant: the size check with >= in place of >. *)
TooLarge_inclusive(size) == size >= MaxFileSize

(* `if file_size > 10 * 1024 * 1024` *)
TooLarge(size) == size > MaxFileSize

(* file_id = f"file_{len(storage.uploads) + 1}" *)
(* Variant: every upload is given the first id. *)
NextFileId_first(up) == FileId(1)

NextFileId(up) == FileId(Cardinality(DOMAIN up) + 1)

(* The requests suspended at `await file.read()`, and the upload records    *)
(* they can still add.                                                      *)
Suspended == {t \in Tasks : pending[t] # Idle}

(* POST /projects/{project_id}/buckets/{bucket_name}/upload, up to         *)
(* `content = await file.read()`.                                          *)
upload_to_bucket_begin(t, project_id, bucket_name, filename, size) ==
    /\ pending[t] = Idle
    /\ IF SimpleStorage_get_project(projects, project_id) = None
       THEN /\ resp' = HTTPException("upload_to_bucket", project_id, 404,
                                     "Project not found")
            /\ UNCHANGED pending
       ELSE IF bucket_name \notin Range(Get(buckets, project_id, <<>>))
       THEN /\ resp' = HTTPException("upload_to_bucket", project_id, 404,
                                     "Bucket not found")
            /\ UNCHANGED pending
       ELSE /\ Cardinality(DOMAIN uploads) + Cardinality(Suspended)
                 < MaxUploads
            /\ pending' = [pending EXCEPT ![t] =
                   [pc |-> "upload_to_bucket", project_id |-> project_id,
                    name |-> bucket_name, filename |-> filename,
                    size |-> size]]
            /\ UNCHANGED resp
    /\ UNCHANGED <<store, file, gateway, deleted, failedWrites>>
    /\ removed' = NoRemoval

(* upload_to_bucket from the size check to the return. *)
upload_to_bucket_finish(t) ==
    /\ pending[t].pc = "upload_to_bucket"
    /\ LET r == pending[t]
           file_id == NextFileId(uploads)
           file_path == <<"./projects", r.project_id, "buckets", r.name,
                          r.filename>>
       IN
       IF TooLarge(r.size)
       THEN /\ resp' = HTTPException("upload_to_bucket", r.project_id, 413,
                                     "File too large")
            /\ UNCHANGED uploads
       ELSE /\ uploads' = Put(uploads, file_id,
                              [id |-> file_id, filename |-> r.filename,
                               size |-> r.size,
                               project_id |-> r.project_id,
                               bucket |-> r.name, path |-> file_path])
            /\ resp' = Response("upload_to_bucket", r.project_id, 200,
                                [success |-> TRUE,
                                 file |-> [id |-> file_id,
                                           filename |-> r.filename,
                                           size |-> r.size,
                                           bucket |-> r.name,
                                           status |-> "uploaded"]])
    /\ pending' = [pending EXCEPT ![t] = Idle]
    /\ UNCHANGED <<projects, brainstorms, buckets, tables, file, gateway,
                   deleted, failedWrites>>
    /\ removed' = NoRemoval

(* POST /projects/{project_id}/tables/{table_name}/upload, up to           *)
(* `content = await file.read()`.                                          *)
upload_csv_to_table_begin(t, project_id, table_name, filename, size) ==
    /\ pending[t] = Idle
    /\ IF SimpleStorage_get_project(projects, project_id) = None
       THEN /\ resp' = HTTPException("upload_csv_to_table", project_id, 404,
                                     "Project not found")
            /\ UNCHANGED pending
       ELSE IF ~endswith(filename, <<".", "c", "s", "v">>)
       THEN /\ resp' = HTTPException("upload_csv_to_table", project_id, 422,
                                     "Only CSV files allowed")
            /\ UNCHANGED pending
       ELSE /\ pending' = [pending EXCEPT ![t] =
                   [pc |-> "upload_csv_to_table", project_id |-> project_id,
                    name |-> table_name, filename |-> filename,
                    size |-> size]]
            /\ UNCHANGED resp
    /\ UNCHANGED <<store, file, gateway, deleted, failedWrites>>
    /\ removed' = NoRemoval

(* upload_csv_to_table from writing the CSV to the return: the table name  *)
(* is added, and the store saved, when the name is new.                    *)
upload_csv_to_table_finish(t) ==
    /\ pending[t].pc = "upload_csv_to_table"
    /\ LET r == pending[t]
           ensured == EnsureEntry(tables, r.project_id)
       IN
       /\ IF r.name \notin Range(ensured[r.project_id])
          THEN /\ tables' = [ensured EXCEPT ![r.project_id] =
                                               Append(@, r.name)]
               /\ \E outcome \in SaveOutcomes :
                    /\ SaveAllowed(outcome)
                    /\ file' = _save_projects(outcome, projects,
                                              brainstorms, buckets, tables')
                    /\ failedWrites' = SaveCount(outcome)
          ELSE /\ tables' = ensured
               /\ UNCHANGED <<file, failedWrites>>
       /\ resp' = Response("upload_csv_to_table", r.project_id, 200,
                           [success |-> TRUE,
                            table |-> [name |-> r.name,
                                       filename |-> r.filename]])
    /\ pending' = [pending EXCEPT ![t] = Idle]
    /\ UNCHANGED <<projects, brainstorms, buckets, uploads, gateway,
                   deleted>>
    /\ removed' = NoRemoval

----------------------------------------------------------------------------
(* AI workflow endpoints that write the store *)

(* brainstorm_id = f"brainstorm_{len(storage.brainstorms) + 1}" *)
NextBrainstormId(bs) == BrainstormId(Cardinality(DOMAIN bs) + 1)

(* Variant: the list without its last idea. *)
Ideas_four(context, focus, tone) ==
    << <<"Character development: Explore ", focus,
         " through internal conflict">>,
       <<"Plot advancement: Use ", context,
         " to create story complications">>,
       <<"Thematic exploration: Apply ", tone,
         " tone to reveal deeper meaning">>,
       <<"Setting integration: Environment reflects ", focus>> >>

(* The five templated ideas; an f-string is the tuple of its parts. *)
Ideas(context, focus, tone) ==
    << <<"Character development: Explore ", focus,
         " through internal conflict">>,
       <<"Plot advancement: Use ", context,
         " to create story complications">>,
       <<"Thematic exploration: Apply ", tone,
         " tone to reveal deeper meaning">>,
       <<"Setting integration: Environment reflects ", focus>>,
       <<"Dialogue opportunities: Voices that embody ", tone,
         " perspective">> >>

configuration_error ==
    [success |-> FALSE, error |-> "OpenAI API key not configured",
     type |-> "configuration_error"]

(* POST /projects/{project_id}/brainstorm *)
brainstorm_project(project_id, context, focus, tone) ==
    /\ IF SimpleStorage_get_project(projects, project_id) = None
       THEN /\ resp' = HTTPException("brainstorm", project_id, 404,
                                     "Project not found")
            /\ UNCHANGED <<brainstorms, file, failedWrites>>
       ELSE IF ~apiKey
       THEN /\ resp' = Response("brainstorm", project_id, 200,
                                configuration_error)
            /\ UNCHANGED <<brainstorms, file, failedWrites>>
       ELSE /\ Cardinality(DOMAIN brainstorms) < MaxBrainstorms
            /\ LET brainstorm_id == NextBrainstormId(brainstorms)
                   brainstorm_data ==
                       [id |-> brainstorm_id, project_id |-> project_id,
                        context |-> context, focus |-> focus, tone |-> tone,
                        ideas |-> Ideas(context, focus, tone),
                        created_at |-> created_at]
               IN
               /\ brainstorms' = Put(brainstorms, brainstorm_id,
                                     brainstorm_data)
               /\ \E outcome \in SaveOutcomes :
                    /\ SaveAllowed(outcome)
                    /\ file' = _save_projects(outcome, projects,
                                              brainstorms', buckets, tables)
                    /\ failedWrites' = SaveCount(outcome)
               /\ resp' = Response("brainstorm", project_id, 200,
                                   [success |-> TRUE,
                                    brainstorm |-> brainstorm_data])
    /\ UNCHANGED <<projects, buckets, tables, uploads, gateway, pending,
                   deleted>>
    /\ removed' = NoRemoval

----------------------------------------------------------------------------
(* AI gateway: LightRAG integration of src/backend/main.py *)

(* The exception the OpenAI client raises, or that reading                 *)
(* response.choices[0].message.content raises on a malformed response.     *)
UpstreamError(upstream) ==
    CASE upstream = "timeout" ->
           [type |-> "APITimeoutError", message |-> "Request timed out."]
      [] upstream = "quota" ->
           [type |-> "RateLimitError", message |-> "insufficient_quota"]
      [] upstream = "malformed" ->
           [type |-> "IndexError", message |-> "list index out of range"]

(* gpt_4o_mini_complete: the completion, or, when the call raises, the     *)
(* string f"AI completion error: {str(e)}", returned as if it were one.    *)
gpt_4o_mini_complete(upstream) ==
    IF upstream = "ok"
    THEN <<"completion">>
    ELSE <<"AI completion error: ", UpstreamError(upstream).message>>

(* create_mock_lightrag *)
create_mock_lightrag == "MockRAG"

(* create_lightrag_instance: the real library, or the mock when the import *)
(* or the construction raises (a missing key raises ValueError).           *)
create_lightrag_instance(library) ==
    IF library = "available" /\ apiKey
    THEN "LightRAG"
    ELSE create_mock_lightrag

(* Variant: the mock answers with a fixed text. *)
MockRAG_aquery_fixed(query) == <<"Mock response">>

(* MockRAG.aquery *)
MockRAG_aquery(query) ==
    <<"Mock response: This is a simulated answer to '", query,
      "'. The real LightRAG system would provide contextual information based on inserted documents.">>

(* sys.argv when create_lightrag_instance returns: it is set to            *)
(* ['lightrag'], and the `finally` puts original_argv back on the return   *)
(* of the library and on both returns of the mock.                         *)
create_lightrag_instance_argv(library, original_argv) == original_argv

(* tempfile.mkdtemp(): a directory that did not exist. *)
mkdtemp(dirs) ==
    <<"tmp", CHOOSE n \in 1..(Cardinality(dirs) + 1) :
               /\ <<"tmp", n>> \notin dirs
               /\ \A m \in 1..(n - 1) : <<"tmp", m>> \in dirs>>

(* Variant: the directory is left in place. *)
rmtree_kept(dirs, temp_dir) == dirs

(* shutil.rmtree(temp_dir, ignore_errors=True) *)
rmtree(dirs, temp_dir) == dirs \ {temp_dir}

(* POST /lightrag/query, up to `await rag.ainsert(text)`.  text and query  *)
(* are strings.  The methods of the mock contain no await, so with the     *)
(* mock the handler runs to its return, `finally` included, in this step;  *)
(* with the library the request is suspended.                              *)
query_lightrag_begin(t, text, query, library) ==
    /\ pending[t] = Idle
    /\ LET arg == [text |-> text, query |-> query, library |-> library,
                   upstream |-> null, rag |-> null]
           temp_dir == mkdtemp(tempDirs)
       IN
       IF ~apiKey
       THEN /\ resp' = Response("query", arg, 200, configuration_error)
            /\ UNCHANGED <<tempDirs, argv, pending>>
       ELSE /\ argv' = create_lightrag_instance_argv(library, argv)
            /\ IF create_lightrag_instance(library) = "MockRAG"
               THEN /\ resp' = Response("query", arg, 200,
                                 [success |-> TRUE, query |-> query,
                                  result |-> MockRAG_aquery(query),
                                  method |-> "lightrag_integration"])
                    /\ tempDirs' =
                         rmtree(tempDirs \cup {temp_dir}, temp_dir)
                    /\ UNCHANGED pending
               ELSE /\ tempDirs' = tempDirs \cup {temp_dir}
                    /\ pending' = [pending EXCEPT ![t] =
                         [pc |-> "query_lightrag", text |-> text,
                          query |-> query, library |-> library,
                          temp_dir |-> temp_dir]]
                    /\ UNCHANGED resp
    /\ UNCHANGED <<store, file, apiKey, documents, deleted, failedWrites>>
    /\ removed' = NoRemoval

(* POST /lightrag/query, from the awaited calls of the library to the      *)
(* return.  rag.aquery returns what llm_model_func returned for the final  *)
(* prompt, or the library raises; `finally` removes the directory.         *)
query_lightrag_finish(t, upstream, rag) ==
    /\ pending[t].pc = "query_lightrag"
    /\ LET r == pending[t]
           arg == [text |-> r.text, query |-> r.query,
                   library |-> r.library, upstream |-> upstream,
                   rag |-> rag]
       IN
       /\ resp' =
            IF rag = "raises"
            THEN Response("query", arg, 200,
                          [success |-> FALSE,
                           error |-> <<"LightRAG query failed: ",
                                       "library error">>,
                           type |-> "RuntimeError"])
            ELSE Response("query", arg, 200,
                          [success |-> TRUE, query |-> r.query,
                           result |-> gpt_4o_mini_complete(upstream),
                           method |-> "lightrag_integration"])
       /\ tempDirs' = rmtree(tempDirs, r.temp_dir)
    /\ pending' = [pending EXCEPT ![t] = Idle]
    /\ UNCHANGED <<store, file, apiKey, documents, argv, deleted,
                   failedWrites>>
    /\ removed' = NoRemoval

(* POST /projects/{project_id}/write.  The texts are tuples of their       *)
(* parts; selected_tables and selected_buckets are not read.               *)
(* Variant: falls back to the first stored brainstorm when the id is not   *)
(* stored.                                                                 *)
ContextInfo_anyStored(bs, brainstorm_id) ==
    IF brainstorm_id # null /\ brainstorm_id \in DOMAIN bs
    THEN << <<"Ideas: ", SubSeq(bs[brainstorm_id].ideas, 1, 2)>> >>
    ELSE IF brainstorm_id # null /\ DOMAIN bs # {}
    THEN << <<"Ideas: ",
              SubSeq(bs[CHOOSE b \in DOMAIN bs : TRUE].ideas, 1, 2)>> >>
    ELSE <<>>

(* context_info of write_content: one entry, from the brainstorm's first   *)
(* two ideas, when brainstorm_id names a stored brainstorm.                *)
ContextInfo(bs, brainstorm_id) ==
    IF brainstorm_id # null /\ brainstorm_id \in DOMAIN bs
    THEN << <<"Ideas: ", SubSeq(bs[brainstorm_id].ideas, 1, 2)>> >>
    ELSE <<>>

(* write_content reads "format" and "brainstorm_id" of the request; the    *)
(* request's selected_tables and selected_buckets are not read.            *)
write_content(project_id, format_type, brainstorm_id, selected_tables, selected_buckets) ==
    /\ LET project == SimpleStorage_get_project(projects, project_id)
           arg == [project_id |-> project_id, format |-> format_type,
                   brainstorm_id |-> brainstorm_id,
                   selected_tables |-> selected_tables,
                   selected_buckets |-> selected_buckets]
           context_info == ContextInfo(brainstorms, brainstorm_id)
           context ==
               IF context_info # <<>>
               THEN <<"join", context_info>>
               ELSE <<"Content for ", project.name>>
           content ==
               IF format_type = "screenplay"
               THEN <<"FADE IN: EXT. CREATIVE WORKSPACE - DAY", context,
                      "FADE OUT.">>
               ELSE <<"# Generated Content ## Context", context,
                      "## Key Features">>
       IN
       resp' =
         IF project = None
         THEN HTTPException("write", arg, 404, "Project not found")
         ELSE IF ~apiKey
         THEN Response("write", arg, 200, configuration_error)
         ELSE Response("write", arg, 200,
                       [success |-> TRUE, content |-> content,
                        format |-> format_type,
                        context_used |-> (context_info # <<>>)])
    /\ UNCHANGED <<store, file, gateway, pending, deleted, failedWrites>>
    /\ removed' = NoRemoval

(* GET /projects/{project_id}/export.  The lists of the project's          *)
(* brainstorms and upload records are given as sets.                       *)
export_project(project_id, format) ==
    /\ LET project == SimpleStorage_get_project(projects, project_id)
           arg == [project_id |-> project_id, format |-> format]
           export_data ==
               [project |-> project,
                brainstorms |->
                    {brainstorms[k] : k \in
                       {x \in DOMAIN brainstorms :
                          brainstorms[x].project_id = project_id}},
                documents |->
                    {uploads[k] : k \in
                       {x \in DOMAIN uploads :
                          uploads[x].project_id = project_id}},
                buckets |-> Get(buckets, project_id, <<>>),
                tables |-> Get(tables, project_id, <<>>),
                exported_at |-> "2025-01-01T00:00:00Z"]
       IN
       resp' =
         IF project = None
         THEN HTTPException("export", arg, 404, "Project not found")
         ELSE IF format = "json"
         THEN Response("export", arg, 200, export_data)
         ELSE HTTPException("export", arg, 400, "Unsupported export format")
    /\ UNCHANGED <<store, file, gateway, pending, deleted, failedWrites>>
    /\ removed' = NoRemoval

----------------------------------------------------------------------------
(* AI gateway: FixedLightRAGManager of core/lightrag_fix.py.  self.client  *)
(* is set in __init__ exactly when the key is set.                         *)

(* The payload of `except Exception as e`. *)
UpstreamFailure(upstream, note) ==
    [success |-> FALSE, error |-> UpstreamError(upstream).message,
     type |-> UpstreamError(upstream).type, note |-> note]

(* What FixedLightRAGManager.test_connection returns. *)
connection_test(upstream) ==
    IF ~apiKey
    THEN [success |-> FALSE,
          error |-> "OpenAI client not initialized - check API key",
          type |-> "configuration_error"]
    ELSE IF upstream # "ok"
    THEN UpstreamFailure(upstream,
                         "Check if OpenAI API key is valid and has credits")
    ELSE [success |-> TRUE, response |-> <<"completion">>,
          model |-> "gpt-4o-mini"]

(* FixedLightRAGManager.test_connection *)
test_connection(upstream) ==
    /\ resp' = Response("test_connection", None, 200,
                        connection_test(upstream))
    /\ UNCHANGED <<store, file, gateway, pending, deleted, failedWrites>>
    /\ removed' = NoRemoval

(* doc_id = f"doc_{len(self.documents)}" *)
NextDocId(docs) == <<"doc_", Cardinality(DOMAIN docs)>>

(* FixedLightRAGManager.process_and_query: the document is stored before   *)
(* the completion is requested.                                            *)
process_and_query(text, query, upstream) ==
    /\ LET arg == [text |-> text, query |-> query]
           doc_id == NextDocId(documents)
       IN
       IF ~apiKey
       THEN /\ resp' = Response("process_and_query", arg, 200,
                         [success |-> FALSE,
                          error |-> "OpenAI client not initialized",
                          type |-> "configuration_error"])
            /\ UNCHANGED documents
       ELSE /\ Cardinality(DOMAIN documents) < MaxDocuments
            /\ documents' = Put(documents, doc_id,
                                [content |-> text, created_at |-> "now"])
            /\ resp' =
                 IF upstream # "ok"
                 THEN Response("process_and_query", arg, 200,
                        UpstreamFailure(upstream,
                                        "Direct OpenAI integration failed"))
                 ELSE Response("process_and_query", arg, 200,
                        [success |-> TRUE, response |-> <<"completion">>,
                         document_id |-> doc_id, query |-> query,
                         method |-> "direct_openai_integration"])
    /\ UNCHANGED <<store, file, apiKey, tempDirs, argv, pending, deleted,
                   failedWrites>>
    /\ removed' = NoRemoval

(* FixedLightRAGManager.simple_completion *)
simple_completion(prompt, upstream) ==
    /\ resp' =
         IF ~apiKey
         THEN Response("simple_completion", prompt, 200,
                       [success |-> FALSE,
                        error |-> "OpenAI client not initialized"])
         ELSE IF upstream # "ok"
         THEN Response("simple_completion", prompt, 200,
                       [success |-> FALSE,
                        error |-> UpstreamError(upstream).message,
                        type |-> UpstreamError(upstream).type])
         ELSE Response("simple_completion", prompt, 200,
                       [success |-> TRUE, response |-> <<"completion">>,
                        model |-> "gpt-4o-mini"])
    /\ UNCHANGED <<store, file, gateway, pending, deleted, failedWrites>>
    /\ removed' = NoRemoval

(* Variant: the result of the connection test is not looked at. *)
ConnectionFailed_never(test) == FALSE

(* `if not connection_test["success"]` of lightrag_test_endpoint *)
ConnectionFailed(test) == ~test.success

(* lightrag_test_endpoint, up to the completion request of                 *)
(* test_connection.  Without a client test_connection returns at once, and *)
(* so does process_and_query if it is reached.                             *)
lightrag_test_endpoint_begin(t, text, query) ==
    /\ pending[t] = Idle
    /\ LET arg == [text |-> text, query |-> query] IN
       IF ~apiKey
       THEN /\ resp' =
                 IF ConnectionFailed(connection_test("ok"))
                 THEN Response("lightrag_test_endpoint", arg, 200,
                               connection_test("ok"))
                 ELSE Response("lightrag_test_endpoint", arg, 200,
                               [success |-> FALSE,
                                error |-> "OpenAI client not initialized",
                                type |-> "configuration_error"])
            /\ UNCHANGED pending
       ELSE /\ pending' = [pending EXCEPT ![t] =
                 [pc |-> "test_connection", text |-> text,
                  query |-> query]]
            /\ UNCHANGED resp
    /\ UNCHANGED <<store, file, gateway, deleted, failedWrites>>
    /\ removed' = NoRemoval

(* lightrag_test_endpoint, from the answer to the connection test to the   *)
(* completion request of process_and_query, which stores the document      *)
(* before it.                                                              *)
lightrag_test_endpoint_connected(t, upstream) ==
    /\ pending[t].pc = "test_connection"
    /\ LET r == pending[t]
           arg == [text |-> r.text, query |-> r.query]
           test == connection_test(upstream)
           doc_id == NextDocId(documents)
       IN
       IF ConnectionFailed(test)
       THEN /\ resp' = Response("lightrag_test_endpoint", arg, 200, test)
            /\ pending' = [pending EXCEPT ![t] = Idle]
            /\ UNCHANGED documents
       ELSE /\ Cardinality(DOMAIN documents) < MaxDocuments
            /\ documents' = Put(documents, doc_id,
                                [content |-> r.text, created_at |-> "now"])
            /\ pending' = [pending EXCEPT ![t] =
                 [pc |-> "process_and_query", text |-> r.text,
                  query |-> r.query, connection_test |-> test,
                  doc_id |-> doc_id]]
            /\ UNCHANGED resp
    /\ UNCHANGED <<store, file, apiKey, tempDirs, argv, deleted,
                   failedWrites>>
    /\ removed' = NoRemoval

(* lightrag_test_endpoint, from the answer to the completion request of    *)
(* process_and_query to the return.                                        *)
lightrag_test_endpoint_finish(t, upstream) ==
    /\ pending[t].pc = "process_and_query"
    /\ LET r == pending[t]
           arg == [text |-> r.text, query |-> r.query]
       IN
       resp' =
         IF upstream # "ok"
         THEN Response("lightrag_test_endpoint", arg, 200,
                UpstreamFailure(upstream,
                                "Direct OpenAI integration failed"))
         ELSE Response("lightrag_test_endpoint", arg, 200,
                [success |-> TRUE, response |-> <<"completion">>,
                 document_id |-> r.doc_id, query |-> r.query,
                 method |-> "direct_openai_integration"])
    /\ pending' = [pending EXCEPT ![t] = Idle]
    /\ UNCHANGED <<store, file, gateway, deleted, failedWrites>>
    /\ removed' = NoRemoval

----------------------------------------------------------------------------
(* The handlers that run in one step: project, bucket and brainstorm        *)
(* requests, and the restart of the process.                                *)
Next ==
    \/ Restart
    \/ list_projects
    \/ \E project \in ProjectInputs : create_project(project)
    \/ \E project_id \in IdInputs : get_project(project_id)
    \/ \E project_id \in IdInputs : delete_project(project_id)
    \/ \E project_id \in IdInputs, name \in BucketNameInputs :
          create_bucket(project_id, name)
    \/ \E project_id \in IdInputs, context \in ContextInputs,
          focus \in FocusInputs, tone \in ToneInputs :
          brainstorm_project(project_id, context, focus, tone)

Spec == Init /\ [][Next]_vars

(* Requests that delete nothing, each create handled: the event loop runs  *)
(* the handler of every request it has accepted, so a create that can be   *)
(* stored is stored.                                                       *)
NextCreates ==
    \/ list_projects
    \/ \E project \in ProjectInputs : create_project(project)
    \/ \E project_id \in IdInputs : get_project(project_id)
    \/ \E project_id \in IdInputs, name \in BucketNameInputs :
          create_bucket(project_id, name)

CreateStored ==
    /\ \E project \in ProjectInputs : create_project(project)
    /\ projects' # projects

SpecCreates == Init /\ [][NextCreates]_vars /\ WF_vars(CreateStored)

(* The store together with the upload handlers, which are suspended at     *)
(* `await file.read()` while other requests run; one upload request is in  *)
(* flight at a time.                                                       *)
NextUploads ==
    \/ Restart
    \/ \E project \in UploadProjectInputs : create_project(project)
    \/ \E project_id \in IdInputs : delete_project(project_id)
    \/ \E t \in {1}, project_id \in IdInputs,
          bucket_name \in BucketPathInputs, size \in SizeInputs :
          upload_to_bucket_begin(t, project_id, bucket_name, txtName, size)
    \/ \E t \in {1} : upload_to_bucket_finish(t)
    \/ \E t \in {1}, project_id \in IdInputs,
          table_name \in TablePathInputs, filename \in FilenameInputs,
          size \in SizeInputs :
          upload_csv_to_table_begin(t, project_id, table_name, filename,
                                    size)
    \/ \E t \in {1} : upload_csv_to_table_finish(t)

SpecUploads == Init /\ [][NextUploads]_vars

(* Bucket uploads of several requests in flight at once, each suspended at *)
(* `await file.read()` while the others run.                               *)
NextInterleaved ==
    \/ \E project \in UploadProjectInputs : create_project(project)
    \/ \E project_id \in IdInputs : delete_project(project_id)
    \/ \E t \in Tasks, project_id \in IdInputs,
          bucket_name \in BucketPathInputs, filename \in FilenameInputs,
          size \in SizeInputs :
          upload_to_bucket_begin(t, project_id, bucket_name, filename, size)
    \/ \E t \in Tasks : upload_to_bucket_finish(t)

SpecInterleaved == Init /\ [][NextInterleaved]_vars

(* The process started with the key set and no projects.json. *)
InitConfigured ==
    /\ Init
    /\ apiKey
    /\ file = [kind |-> "absent"]

(* The handlers of src/backend/main.py that write to the store or are      *)
(* given something of it, with the query beside them: one request in       *)
(* flight at a time, each with one request body.                           *)
NextHandlers ==
    \/ \E project \in UploadProjectInputs : create_project(project)
    \/ \E project_id \in IdInputs : delete_project(project_id)
    \/ \E project_id \in IdInputs : create_bucket(project_id, notes)
    \/ \E project_id \in IdInputs :
          upload_to_bucket_begin(1, project_id, research, txtName,
                                 MaxFileSize)
    \/ upload_to_bucket_finish(1)
    \/ \E project_id \in IdInputs :
          brainstorm_project(project_id, "General brainstorming",
                             "Creative development", "neutral")
    \/ \E project_id \in IdInputs :
          write_content(project_id, "screenplay", BrainstormId(1), <<>>,
                        <<>>)
    \/ query_lightrag_begin(1, "Some document", "What is this about?",
                            "available")
    \/ query_lightrag_finish(1, "ok", "returns")
    \/ \E project_id \in IdInputs, format \in ExportFormatInputs :
          export_project(project_id, format)

SpecHandlers == InitConfigured /\ [][NextHandlers]_vars

(* The gateway calls that run in one step, over a store with projects and  *)
(* brainstorms.                                                            *)
NextGateway ==
    \/ \E project \in UploadProjectInputs : create_project(project)
    \/ \E project_id \in IdInputs, focus \in FocusInputs,
          tone \in ToneInputs :
          brainstorm_project(project_id, "General brainstorming", focus,
                             tone)
    \/ \E project_id \in IdInputs, format_type \in FormatInputs,
          brainstorm_id \in BrainstormIdInputs,
          selected_tables \in SelectedTablesInputs,
          selected_buckets \in SelectedBucketsInputs :
          write_content(project_id, format_type, brainstorm_id,
                        selected_tables, selected_buckets)
    \/ \E upstream \in UpstreamOutcomes : test_connection(upstream)
    \/ \E text \in TextInputs, query \in QueryInputs,
          upstream \in UpstreamOutcomes :
          process_and_query(text, query, upstream)
    \/ \E prompt \in PromptInputs, upstream \in UpstreamOutcomes :
          simple_completion(prompt, upstream)

SpecGateway == Init /\ [][NextGateway]_vars

(* The calls of the gateway that read nothing of the project store, with   *)
(* the requests that are suspended in the library or at the model service. *)
NextQueries ==
    \/ \E t \in Tasks, text \in TextInputs, query \in QueryInputs,
          library \in LibraryInputs :
          query_lightrag_begin(t, text, query, library)
    \/ \E t \in Tasks, upstream \in UpstreamOutcomes, rag \in RagOutcomes :
          query_lightrag_finish(t, upstream, rag)
    \/ \E upstream \in UpstreamOutcomes : test_connection(upstream)
    \/ \E text \in TextInputs, query \in QueryInputs,
          upstream \in UpstreamOutcomes :
          process_and_query(text, query, upstream)
    \/ \E prompt \in PromptInputs, upstream \in UpstreamOutcomes :
          simple_completion(prompt, upstream)
    \/ \E t \in Tasks, text \in TextInputs, query \in QueryInputs :
          lightrag_test_endpoint_begin(t, text, query)
    \/ \E t \in Tasks, upstream \in UpstreamOutcomes :
          lightrag_test_endpoint_connected(t, upstream)
    \/ \E t \in Tasks, upstream \in UpstreamOutcomes :
          lightrag_test_endpoint_finish(t, upstream)

SpecQueries == Init /\ [][NextQueries]_vars

----------------------------------------------------------------------------
(* Properties *)

StoredIds == {projects[i].id : i \in DOMAIN projects}

DuplicateIds ==
    \E i, j \in DOMAIN projects : i # j /\ projects[i].id = projects[j].id

CreateSucceeded(r) == r.op = "create" /\ r.status = 200

(* C1: a successful create followed immediately by get with the id that    *)
(* create returned yields the record create returned.                      *)
C1_CreateThenGet ==
    [][(/\ CreateSucceeded(resp)
        /\ resp'.op = "get"
        /\ resp'.arg = resp.body.project.id)
       => (/\ resp'.status = 200
           /\ resp'.body.project = resp.body.project)]_vars

(* C2: a successful delete(id) followed immediately by get(id) reports     *)
(* not-found, also when several stored projects carried the id; delete     *)
(* reports not-found exactly when the id is not stored, and then leaves    *)
(* projects, brainstorms, buckets and tables as they were.                 *)
C2_DeleteThenGet ==
    [][/\ (/\ resp.op = "delete"
           /\ resp.status = 200
           /\ resp'.op = "get"
           /\ resp'.arg = resp.arg) => resp'.status = 404
       /\ resp'.op = "delete" =>
             /\ resp'.status = (IF resp'.arg \in StoredIds THEN 200 ELSE 404)
             /\ resp'.status = 404 =>
                   UNCHANGED <<projects, brainstorms, buckets, tables>>
             /\ resp'.status = 200 =>
                   SimpleStorage_get_project(projects', resp'.arg) = None
      ]_vars

(* A delete has just removed two projects that carried the same id, and a  *)
(* get of that id finds nothing.                                           *)
C2_Witness ==
    /\ resp.op = "delete"
    /\ resp.status = 200
    /\ removed.projects = 2
    /\ SimpleStorage_get_project(projects, resp.arg) = None

(* C3: a create whose template is not one of screenplay, academic,         *)
(* business fails with 422 and changes neither the store nor the file.     *)
C3_InvalidTemplate ==
    [][(/\ resp'.op = "create"
        /\ resp'.arg.template \notin {"screenplay", "academic", "business"})
       => (/\ resp'.status = 422
           /\ UNCHANGED <<store, file>>)]_vars

(* A create with template "novel" was refused while projects are stored. *)
C3_Witness ==
    /\ resp.op = "create"
    /\ resp.arg.template = "novel"
    /\ resp.status = 422
    /\ Len(projects) > 0

(* C4: with a valid template, a create fails with 422 and adds nothing     *)
(* when the name has more than 100 characters, and succeeds, adding one    *)
(* project, when it has 100 or fewer.                                      *)
C4_NameLength ==
    [][(/\ resp'.op = "create"
        /\ resp'.arg.template \in {"screenplay", "academic", "business"})
       => IF Len(resp'.arg.name) > 100
          THEN /\ resp'.status = 422
               /\ UNCHANGED <<store, file>>
          ELSE /\ resp'.status = 200
               /\ Len(projects') = Len(projects) + 1
               /\ projects'[Len(projects')].name = resp'.arg.name]_vars

(* A project whose name has exactly 100 characters was created. *)
C4_Witness ==
    /\ CreateSucceeded(resp)
    /\ Len(resp.arg.name) = 100
    /\ \E i \in DOMAIN projects : Len(projects[i].name) = 100

(* C5: every new project receives the id "project_" + (count + 1), and     *)
(* its number is greater than the number of every project created before.  *)
C5_MonotonicIds ==
    [][CreateSucceeded(resp') /\ projects' # projects
       => (/\ resp'.body.project.id = ProjectId(Len(projects) + 1)
           /\ \A i \in DOMAIN projects :
                 projects[i].id[2] < resp'.body.project.id[2])]_vars

(* C6: two stored projects can carry the same id, and that happens only    *)
(* once a delete has shrunk the count.                                     *)
C6_CollisionAfterDelete == DuplicateIds => deleted

(* Two stored projects with one id, reached by create, create, delete,     *)
(* create.                                                                 *)
C6_Witness == DuplicateIds /\ deleted /\ CreateSucceeded(resp)

C8_ReferencesStored ==
    /\ \A k \in DOMAIN brainstorms : brainstorms[k].project_id \in StoredIds
    /\ DOMAIN buckets \subseteq StoredIds
    /\ DOMAIN tables \subseteq StoredIds
    /\ \A k \in DOMAIN uploads : uploads[k].project_id \in StoredIds

(* C9: a successful delete(id) leaves no project and no brainstorm of id   *)
(* and no bucket or table entry for id; what belongs to the other project  *)
(* ids is unchanged.                                                       *)
C9_DeleteCascades ==
    [][(resp'.op = "delete" /\ resp'.status = 200) =>
         LET id == resp'.arg IN
         /\ \A i \in DOMAIN projects' : projects'[i].id # id
         /\ projects' = SelectSeq(projects, LAMBDA p : p.id # id)
         /\ \A k \in DOMAIN brainstorms' : brainstorms'[k].project_id # id
         /\ id \notin DOMAIN buckets'
         /\ id \notin DOMAIN tables'
         /\ \A k \in DOMAIN brainstorms :
               brainstorms[k].project_id # id =>
                 k \in DOMAIN brainstorms' /\ brainstorms'[k] = brainstorms[k]
         /\ DOMAIN brainstorms' \subseteq DOMAIN brainstorms
         /\ DOMAIN buckets' = DOMAIN buckets \ {id}
         /\ \A x \in DOMAIN buckets' : buckets'[x] = buckets[x]
         /\ DOMAIN tables' = DOMAIN tables \ {id}
         /\ \A x \in DOMAIN tables' : tables'[x] = tables[x]]_vars

(* A delete removed a project together with its brainstorm while another   *)
(* project keeps a bucket list that createBucket had extended.             *)
C9_Witness ==
    /\ resp.op = "delete"
    /\ resp.status = 200
    /\ removed.brainstorms > 0
    /\ \E x \in DOMAIN buckets : Len(buckets[x]) > Len(default_buckets)

(* C10: when no write has failed, a restart reloads the project list and   *)
(* the brainstorm set that were in memory.                                 *)
C10_RoundTrip ==
    [][(resp'.op = "startup" /\ failedWrites = 0)
       => (projects' = projects /\ brainstorms' = brainstorms)]_vars

(* The store was restarted with projects and a brainstorm in it. *)
C10_Witness ==
    /\ resp.op = "startup"
    /\ failedWrites = 0
    /\ Len(projects) > 0
    /\ DOMAIN brainstorms # {}

(* The persisted document holds the four collections as they are in       *)
(* memory, and every upload record that is in memory.                     *)
Flushed ==
    /\ file.kind = "json"
    /\ {"projects", "brainstorms", "buckets", "tables"}
         \subseteq DOMAIN file.data
    /\ file.data.projects = projects
    /\ file.data.brainstorms = brainstorms
    /\ file.data.buckets = buckets
    /\ file.data.tables = tables
    /\ \A k \in DOMAIN uploads :
          /\ "uploads" \in DOMAIN file.data
          /\ k \in DOMAIN file.data.uploads
          /\ file.data.uploads[k] = uploads[k]

MutatingOps ==
    {"create", "delete", "create_bucket", "upload_to_bucket",
     "upload_csv_to_table", "brainstorm"}

(* C11: when a mutating operation has returned with success and changed    *)
(* the store, the persisted document holds projects, brainstorms, buckets, *)
(* tables and upload records exactly as they are in memory.                *)
C11_AllFlushed ==
    [][(/\ resp'.op \in MutatingOps
        /\ resp'.status = 200
        /\ store' # store)
       => Flushed']_vars

(* The request of task t returns in this step. *)
Returns(t, op) ==
    /\ pending[t].pc = op
    /\ pending'[t] = Idle
    /\ resp'.op = op

(* C13: a bucket upload of exactly 10 * 1024 * 1024 bytes returns 200 and   *)
(* adds one upload record, keeping the others; an upload one byte larger   *)
(* returns 413 and adds none.                                              *)
C13_SizeCeiling ==
    [][\A t \in Tasks :
         Returns(t, "upload_to_bucket") =>
           IF pending[t].size > 10 * 1024 * 1024
           THEN /\ resp'.status = 413
                /\ uploads' = uploads
           ELSE /\ resp'.status = 200
                /\ Cardinality(DOMAIN uploads') =
                     Cardinality(DOMAIN uploads) + 1
                /\ \A k \in DOMAIN uploads :
                      k \in DOMAIN uploads' /\ uploads'[k] = uploads[k]
                /\ \E k \in DOMAIN uploads' \ DOMAIN uploads :
                      /\ uploads'[k].size = pending[t].size
                      /\ uploads'[k].project_id = pending[t].project_id
      ]_vars

(* An upload of exactly the ceiling has been recorded. *)
C13_Witness ==
    /\ resp.op = "upload_to_bucket"
    /\ resp.status = 200
    /\ resp.body.file.size = 10 * 1024 * 1024
    /\ \E k \in DOMAIN uploads : uploads[k].size = 10 * 1024 * 1024

(* C14: a table upload whose content exceeds 10 MiB returns 413 and        *)
(* changes neither the store nor the file.                                 *)
C14_TableSizeCeiling ==
    [][\A t \in Tasks :
         (Returns(t, "upload_csv_to_table")
            /\ pending[t].size > 10 * 1024 * 1024)
         => (/\ resp'.status = 413
             /\ UNCHANGED <<store, file>>)]_vars

(* C15: a table upload whose filename does not end in .csv fails (404 for  *)
(* a project that is not stored, 422 otherwise), is not suspended, and     *)
(* leaves the store and the file as they were.                             *)
C15_CsvOnly ==
    [][\A t \in Tasks, project_id \in IdInputs,
          table_name \in TablePathInputs,
          filename \in FilenameInputs \ {csvName}, size \in SizeInputs :
         upload_csv_to_table_begin(t, project_id, table_name, filename,
                                   size)
         => (/\ resp'.op = "upload_csv_to_table"
             /\ resp'.status =
                  (IF project_id \in StoredIds THEN 422 ELSE 404)
             /\ UNCHANGED <<store, file, pending>>)]_vars

(* A table upload was refused for its filename while a project is stored. *)
C15_Witness ==
    /\ resp.op = "upload_csv_to_table"
    /\ resp.status = 422
    /\ resp.arg \in StoredIds

(* C16: an upload returns 404 and changes nothing when the project is not   *)
(* stored, when the bucket is not in the project's bucket list, and when   *)
(* the table is not in the project's table list.                           *)
C16_MissingTarget ==
    [][/\ \A t \in Tasks, project_id \in IdInputs,
             bucket_name \in BucketPathInputs, size \in SizeInputs :
            (/\ upload_to_bucket_begin(t, project_id, bucket_name, txtName,
                                       size)
             /\ \/ project_id \notin StoredIds
                \/ bucket_name \notin Range(Get(buckets, project_id, <<>>)))
            => (resp'.status = 404 /\ UNCHANGED <<store, file, pending>>)
       /\ \A t \in Tasks, project_id \in IdInputs,
             table_name \in TablePathInputs, size \in SizeInputs :
            (/\ upload_csv_to_table_begin(t, project_id, table_name,
                                          csvName, size)
             /\ project_id \notin StoredIds)
            => (resp'.status = 404 /\ UNCHANGED <<store, file, pending>>)
       /\ \A t \in Tasks :
            (/\ Returns(t, "upload_csv_to_table")
             /\ pending[t].name
                  \notin Range(Get(tables, pending[t].project_id, <<>>)))
            => (resp'.status = 404 /\ UNCHANGED <<store, file>>)
      ]_vars

(* C12: a start that finds a file it cannot read, cannot parse, or that    *)
(* is not an object completes with empty projects, brainstorms, buckets    *)
(* and tables; from such a store, the first call that changes it and whose *)
(* write does not fail leaves the document of the new state in the file.   *)
C12_ReadFailureSwallowed ==
    [][/\ (resp'.op = "startup"
             /\ file.kind \in {"unreadable", "corrupt", "not_object"})
          => (/\ resp'.status = 200
              /\ projects' = <<>>
              /\ DOMAIN brainstorms' = {}
              /\ DOMAIN buckets' = {}
              /\ DOMAIN tables' = {}
              /\ file' = file)
       /\ (/\ file.kind \in {"unreadable", "corrupt", "not_object"}
           /\ projects = <<>>
           /\ DOMAIN brainstorms = {}
           /\ DOMAIN buckets = {}
           /\ DOMAIN tables = {}
           /\ store' # store
           /\ failedWrites' = failedWrites)
          => (/\ file'.kind = "json"
              /\ file'.data.projects = projects'
              /\ file'.data.brainstorms = brainstorms'
              /\ file'.data.buckets = buckets'
              /\ file'.data.tables = tables')
      ]_vars

(* The process was restarted on a document that is not valid JSON, after   *)
(* a write had failed, and holds no project.                               *)
C12_Witness ==
    /\ resp.op = "startup"
    /\ file.kind = "corrupt"
    /\ failedWrites > 0
    /\ projects = <<>>
    /\ DOMAIN buckets = {}

NoDuplicateBuckets ==
    \A x \in DOMAIN buckets :
       \A i, j \in DOMAIN buckets[x] :
          buckets[x][i] = buckets[x][j] => i = j

(* The name without its blanks; the names of the requests have none        *)
(* inside.                                                                 *)
Trimmed(name) == SelectSeq(name, LAMBDA c : c # " ")

(* C17: createBucket returns 404 when the project is not stored and 409    *)
(* when the trimmed name is in the project's bucket list, a default bucket *)
(* included; both leave the bucket lists as they were, and no bucket list  *)
(* ever holds a name twice.                                                *)
C17_BucketConflict ==
    /\ []NoDuplicateBuckets
    /\ [][\A project_id \in IdInputs, name \in BucketNameInputs :
            create_bucket(project_id, name) =>
              /\ project_id \notin StoredIds
                 => (resp'.status = 404 /\ buckets' = buckets)
              /\ (/\ project_id \in StoredIds
                  /\ Trimmed(name) # <<>>
                  /\ Trimmed(name) \in Range(Get(buckets, project_id, <<>>)))
                 => (resp'.status = 409 /\ buckets' = buckets)
              /\ (/\ project_id \in StoredIds
                  /\ Trimmed(name) # <<>>
                  /\ Trimmed(name)
                       \notin Range(Get(buckets, project_id, <<>>)))
                 => (/\ resp'.status = 200
                     /\ Trimmed(name) \in Range(buckets'[project_id]))
         ]_vars

(* A bucket "notes" was created from " notes ", and a later createBucket   *)
(* for the same project was refused as a duplicate.                        *)
C17_Witness ==
    /\ resp.op = "create_bucket"
    /\ resp.status = 409
    /\ resp.arg \in DOMAIN buckets
    /\ notes \in Range(buckets[resp.arg])

GatewayOps ==
    {"query", "brainstorm", "write", "test_connection", "process_and_query",
     "simple_completion"}

(* C18: with no key set, every gateway call (query, brainstorm, write,     *)
(* test_connection, process_and_query, simple_completion) returns a        *)
(* payload with success = false and type = configuration_error, and none   *)
(* raises.                                                                 *)
C18_Unconfigured ==
    [][(~apiKey /\ resp'.op \in GatewayOps)
       => (/\ resp'.status = 200
           /\ resp'.body.success = FALSE
           /\ "type" \in DOMAIN resp'.body
           /\ resp'.body.type = "configuration_error")]_vars

(* C19: with the key set and the library available, a query during which   *)
(* the model service fails returns success = false with the error message  *)
(* and the error kind, and never success = true.                           *)
C19_UpstreamFailure ==
    [][(/\ apiKey
        /\ resp'.op = "query"
        /\ resp'.arg.library = "available"
        /\ resp'.arg.upstream # "ok")
       => (/\ resp'.status = 200
           /\ resp'.body.success = FALSE
           /\ {"error", "type"} \subseteq DOMAIN resp'.body)]_vars

MockQuery(r) ==
    r.op = "query" /\ r.arg.library \in {"import_fails", "init_fails"}

(* C20: with the key set and the library not importable or not             *)
(* constructible, a query returns success = true with the mock answer,     *)
(* which contains the query text and is the same for every repetition of   *)
(* the query, whatever the document text.                                  *)
C20_MockFallback ==
    [][(apiKey /\ MockQuery(resp')) =>
         /\ resp'.status = 200
         /\ resp'.body.success = TRUE
         /\ resp'.body.query = resp'.arg.query
         /\ resp'.body.result[1] =
              "Mock response: This is a simulated answer to '"
         /\ resp'.body.result[2] = resp'.arg.query
         /\ (MockQuery(resp) /\ resp.arg.query = resp'.arg.query)
            => resp'.body.result = resp.body.result
      ]_vars

(* A query with the key set fell back to the mock after LightRAG(...)      *)
(* raised, and was answered with the mock text for its query.              *)
C20_Witness ==
    /\ apiKey
    /\ MockQuery(resp)
    /\ resp.arg.library = "init_fails"
    /\ resp.arg.text = "Some document"
    /\ resp.body.success = TRUE
    /\ resp.body.result[2] = "Who?"

(* The brainstorm b is stored for project id, with five ideas built from   *)
(* its context, focus and tone.                                            *)
BrainstormStored(bs, b, id) ==
    /\ b.id \in DOMAIN bs
    /\ bs[b.id] = b
    /\ b.project_id = id
    /\ Len(b.ideas) = 5
    /\ b.ideas[1][2] = b.focus
    /\ b.ideas[2][2] = b.context
    /\ b.ideas[3][2] = b.tone
    /\ b.ideas[4][2] = b.focus
    /\ b.ideas[5][2] = b.tone
    /\ \A i, j \in 1..5 : i # j => b.ideas[i][1] # b.ideas[j][1]

(* C21: a brainstorm for a stored project returns success and stores a     *)
(* brainstorm of that project with five ideas determined by context,       *)
(* focus and tone, whether or not the key is set.                          *)
C21_BrainstormAlwaysSucceeds ==
    [][(resp'.op = "brainstorm" /\ resp'.arg \in StoredIds)
       => (/\ resp'.status = 200
           /\ resp'.body.success = TRUE
           /\ BrainstormStored(brainstorms', resp'.body.brainstorm,
                               resp'.arg))]_vars

(* C21, amended: with the key set, a brainstorm for a stored project       *)
(* returns success and stores a brainstorm of that project with five       *)
(* ideas determined by context, focus and tone; with the key unset it      *)
(* returns the configuration_error payload and stores nothing.             *)
C21_BrainstormSucceedsWithKey ==
    [][(resp'.op = "brainstorm" /\ resp'.arg \in StoredIds)
       => IF apiKey
          THEN /\ resp'.status = 200
               /\ resp'.body.success = TRUE
               /\ BrainstormStored(brainstorms', resp'.body.brainstorm,
                                   resp'.arg)
          ELSE /\ resp'.status = 200
               /\ resp'.body.success = FALSE
               /\ resp'.body.type = "configuration_error"
               /\ brainstorms' = brainstorms]_vars

(* A brainstorm with the context "act two" was stored for a stored         *)
(* project.                                                                *)
C21_Witness ==
    /\ resp.op = "brainstorm"
    /\ resp.status = 200
    /\ resp.body.success = TRUE
    /\ resp.arg \in StoredIds
    /\ resp.body.brainstorm.context = "act two"
    /\ resp.body.brainstorm.id \in DOMAIN brainstorms

(* A write for a stored project with the key set. *)
WriteServed ==
    /\ resp'.op = "write"
    /\ resp'.arg.project_id \in StoredIds
    /\ apiKey

(* The default context of the project the write was for. *)
DefaultContext(arg) ==
    <<"Content for ",
      SimpleStorage_get_project(projects, arg.project_id).name>>

(* C22: for a stored project with the key set, a write whose brainstorm_id *)
(* is not a stored brainstorm returns success with the content built from  *)
(* the default context, context_used = false (also when no resources are   *)
(* selected), and changes neither the store nor the file.                  *)
C22_WriteFallsBack ==
    [][(WriteServed /\ resp'.arg.brainstorm_id # null
          /\ resp'.arg.brainstorm_id \notin DOMAIN brainstorms)
       => (/\ resp'.status = 200
           /\ resp'.body.success = TRUE
           /\ resp'.body.content[2] = DefaultContext(resp'.arg)
           /\ resp'.body.context_used = FALSE
           /\ UNCHANGED <<store, file>>)]_vars

(* A write named a brainstorm that is not stored while brainstorm_1 is,    *)
(* with no resources selected, and succeeded with context_used = false.    *)
C22_Witness ==
    /\ resp.op = "write"
    /\ resp.status = 200
    /\ resp.body.success = TRUE
    /\ resp.body.context_used = FALSE
    /\ resp.arg.brainstorm_id # null
    /\ resp.arg.brainstorm_id \notin DOMAIN brainstorms
    /\ resp.arg.selected_tables = <<>>
    /\ resp.arg.selected_buckets = <<>>
    /\ DOMAIN brainstorms = {BrainstormId(1)}

(* The names of seq occur in the context string. *)
Mentions(context, names) ==
    /\ context[1] = "join"
    /\ \E i \in 1..Len(context[2]) :
          \E j \in 1..Len(context[2][i]) : names = context[2][i][j]

(* C25: a successful write whose brainstorm_id names a stored brainstorm   *)
(* has that brainstorm's first two ideas in its context, one with selected *)
(* tables or selected buckets has their names in its context, and the      *)
(* default context is used only when all three are absent.                 *)
C25_ContextFromSelections ==
    [][WriteServed
       => LET arg == resp'.arg
              context == resp'.body.content[2]
          IN
          /\ (arg.brainstorm_id # null
                /\ arg.brainstorm_id \in DOMAIN brainstorms)
             => Mentions(context,
                         SubSeq(brainstorms[arg.brainstorm_id].ideas, 1, 2))
          /\ arg.selected_tables # <<>>
             => Mentions(context, arg.selected_tables)
          /\ arg.selected_buckets # <<>>
             => Mentions(context, arg.selected_buckets)
          /\ context = DefaultContext(arg)
             => (/\ (arg.brainstorm_id = null
                       \/ arg.brainstorm_id \notin DOMAIN brainstorms)
                 /\ arg.selected_tables = <<>>
                 /\ arg.selected_buckets = <<>>)]_vars

(* C23: list returns the stored list as it is, with its length as count,  *)
(* and changes nothing; the stored list is built only by create, which     *)
(* appends the new project at the end, and by delete, which removes the    *)
(* projects of the deleted id and keeps the others in their order; so the  *)
(* listed projects are the created and not deleted ones in creation order. *)
C23_ListInInsertionOrder ==
    [][/\ resp'.op = "list"
          => (/\ resp'.status = 200
              /\ resp'.body.projects = projects
              /\ resp'.body.count = Len(projects)
              /\ projects' = projects)
       /\ resp'.op = "create"
          => projects' = (IF resp'.status = 200
                          THEN Append(projects, resp'.body.project)
                          ELSE projects)
       /\ resp'.op = "delete"
          => projects' = (IF resp'.status = 200
                          THEN SelectSeq(projects,
                                         LAMBDA p : p.id # resp'.arg)
                          ELSE projects)
       /\ resp'.op \notin {"create", "delete", "startup"}
          => projects' = projects]_vars

(* After a delete and a later create, list returned two projects, the      *)
(* older one first.                                                        *)
C23_Witness ==
    /\ resp.op = "list"
    /\ deleted
    /\ resp.body.count = 2
    /\ resp.body.projects = projects
    /\ projects[1].name # projects[2].name

(* The queries suspended at an await of the library. *)
SuspendedQueries == {t \in Tasks : pending[t].pc = "query_lightrag"}

(* The temporary directories that exist are those of the queries that have *)
(* not returned yet, one each.                                             *)
TempDirsOwned ==
    /\ tempDirs = {pending[t].temp_dir : t \in SuspendedQueries}
    /\ \A t, u \in SuspendedQueries :
          pending[t].temp_dir = pending[u].temp_dir => t = u

(* C29: a query with the key set makes one temporary directory, which      *)
(* exists while the query is suspended in the library and is gone when the *)
(* response is returned, whether the query succeeded, fell back to the     *)
(* mock or the library raised; a query without the key makes none; and     *)
(* sys.argv is the same after every step, so creating the LightRAG         *)
(* instance has put it back.                                               *)
C29_TempDirRemoved ==
    /\ [](TempDirsOwned /\ argv = process_argv)
    /\ [][/\ \A t \in Tasks :
               (pending[t] = Idle /\ pending'[t].pc = "query_lightrag")
               => (/\ apiKey
                   /\ pending'[t].temp_dir \notin tempDirs
                   /\ tempDirs' = tempDirs \cup {pending'[t].temp_dir})
          /\ \A t \in Tasks :
               (pending[t].pc = "query_lightrag" /\ pending'[t] = Idle)
               => (/\ resp'.op = "query"
                   /\ pending[t].temp_dir \in tempDirs
                   /\ tempDirs' = tempDirs \ {pending[t].temp_dir})
          /\ (resp'.op = "query" /\ pending' = pending)
               => tempDirs' = tempDirs
          /\ ~apiKey => tempDirs' = {}]_vars

(* A query whose library call raised has returned its failure payload, and *)
(* no temporary directory is left.                                         *)
C29_Witness ==
    /\ apiKey
    /\ resp.op = "query"
    /\ resp.arg.rag = "raises"
    /\ resp.body.success = FALSE
    /\ SuspendedQueries = {}
    /\ tempDirs = {}

(* A step in which process_and_query is called directly. *)
DirectProcessAndQuery ==
    \E text \in TextInputs, query \in QueryInputs,
       upstream \in UpstreamOutcomes :
       process_and_query(text, query, upstream)

(* A step in which the lightrag_test_endpoint request t goes on from its   *)
(* connection test to process_and_query.                                   *)
EndpointProcesses(t) ==
    /\ pending[t].pc = "test_connection"
    /\ pending'[t].pc = "process_and_query"

(* C30: a lightrag_test_endpoint request reaches process_and_query, and    *)
(* stores its document, only in the step in which its connection test      *)
(* returned success = true; when the connection test fails the request     *)
(* returns the failure payload of the test and the documents are           *)
(* unchanged; nothing else but a direct process_and_query call stores a    *)
(* document.                                                               *)
C30_ConnectionTestFirst ==
    [][/\ \A t \in Tasks :
            (pending'[t].pc = "process_and_query"
               /\ pending'[t] # pending[t])
            => (/\ EndpointProcesses(t)
                /\ pending'[t].connection_test.success = TRUE
                /\ DOMAIN documents' = DOMAIN documents
                                         \cup {pending'[t].doc_id}
                /\ pending'[t].doc_id \notin DOMAIN documents
                /\ documents'[pending'[t].doc_id].content = pending[t].text)
       /\ documents' # documents
            => (DirectProcessAndQuery \/ \E t \in Tasks : EndpointProcesses(t))
       /\ \A t \in Tasks :
            (pending[t].pc = "test_connection" /\ pending'[t] = Idle)
            => (/\ resp'.op = "lightrag_test_endpoint"
                /\ resp'.body.success = FALSE
                /\ resp'.body.note =
                     "Check if OpenAI API key is valid and has credits"
                /\ documents' = documents)
       /\ (~apiKey /\ resp'.op = "lightrag_test_endpoint")
            => (/\ resp'.body.success = FALSE
                /\ resp'.body.error =
                     "OpenAI client not initialized - check API key"
                /\ documents' = documents)]_vars

(* A lightrag_test_endpoint request has returned the answer of             *)
(* process_and_query with the id of the document it stored.                *)
C30_Witness ==
    /\ resp.op = "lightrag_test_endpoint"
    /\ resp.body.success = TRUE
    /\ resp.body.document_id \in DOMAIN documents
    /\ documents[resp.body.document_id].content = resp.arg.text

(* C26: a successful create gives the new project the default bucket     *)
(* list and the default table list, and leaves the bucket list and the     *)
(* table list of every project that was stored before it as they were.     *)
C26_CreateKeepsOtherLists ==
    [][(CreateSucceeded(resp') /\ projects' # projects)
       => LET id == resp'.body.project.id IN
          /\ buckets'[id] = default_buckets
          /\ tables'[id] = default_tables
          /\ \A x \in StoredIds :
                /\ x \in DOMAIN buckets
                   => (x \in DOMAIN buckets' /\ buckets'[x] = buckets[x])
                /\ x \in DOMAIN tables
                   => (x \in DOMAIN tables' /\ tables'[x] = tables[x])]_vars

(* C27: a successful brainstorm makes the stored brainstorm set one       *)
(* larger and leaves every brainstorm of a stored project that was in it   *)
(* in place and unchanged.                                                 *)
C27_BrainstormAddsOne ==
    [][(/\ resp'.op = "brainstorm"
        /\ resp'.status = 200
        /\ resp'.body.success = TRUE)
       => (/\ Cardinality(DOMAIN brainstorms')
                = Cardinality(DOMAIN brainstorms) + 1
           /\ \A k \in DOMAIN brainstorms :
                 brainstorms[k].project_id \in StoredIds
                 => (/\ k \in DOMAIN brainstorms'
                     /\ brainstorms'[k] = brainstorms[k]))]_vars

(* C28: a bucket upload that returns success has added one upload record *)
(* under an id that no record had, with the file name, size, project and   *)
(* bucket of that request, and has left every other record as it was,      *)
(* also when other upload requests were suspended at their await in        *)
(* between.                                                                *)
C28_UploadsGetFreshIds ==
    [][\A t \in Tasks :
         (Returns(t, "upload_to_bucket") /\ resp'.status = 200)
         => \E k \in DOMAIN uploads' :
               /\ k \notin DOMAIN uploads
               /\ DOMAIN uploads' = DOMAIN uploads \cup {k}
               /\ \A j \in DOMAIN uploads : uploads'[j] = uploads[j]
               /\ uploads'[k].id = k
               /\ resp'.body.file.id = k
               /\ uploads'[k].filename = pending[t].filename
               /\ uploads'[k].size = pending[t].size
               /\ uploads'[k].project_id = pending[t].project_id
               /\ uploads'[k].bucket = pending[t].name]_vars

(* An upload has returned success and its record is stored while another   *)
(* upload request is suspended at its await.                               *)
C28_Witness ==
    /\ resp.op = "upload_to_bucket"
    /\ resp.status = 200
    /\ resp.body.file.id \in DOMAIN uploads
    /\ \E t \in Tasks : pending[t].pc = "upload_to_bucket"

(* C24: a step that is not a successful delete leaves every stored        *)
(* project where it is in the list, with its id, name, template,           *)
(* description and created_at (a create adds its project behind them);     *)
(* a successful delete removes the projects of its id and leaves the       *)
(* others, with their fields, in their order.                              *)
C24_ProjectsImmutable ==
    [][IF resp'.op = "delete" /\ resp'.status = 200
       THEN projects' = SelectSeq(projects, LAMBDA p : p.id # resp'.arg)
       ELSE /\ Len(projects') >= Len(projects)
            /\ \A i \in DOMAIN projects : projects'[i] = projects[i]]_vars

(* An export has returned a project that was created before another        *)
(* create, with a brainstorm and an upload record of it.                   *)
C24_Witness ==
    /\ resp.op = "export"
    /\ resp.status = 200
    /\ Len(projects) = 2
    /\ resp.body.project = projects[1]
    /\ resp.body.brainstorms # {}
    /\ resp.body.documents # {}
    /\ Len(resp.body.buckets) > Len(default_buckets)

====
